---- MODULE Spec2Model ----
(***************************************************************************)
(* better_exceptions/formatter.py : ExceptionFormatter.                    *)
(*                                                                         *)
(* The state is one call of format_exception on a failure graph: the       *)
(* failure objects with their __cause__ / __context__ links, their         *)
(* tracebacks, the formatter's configuration, the _seen set shared by the  *)
(* recursive generator calls, the stack of suspended generator frames and  *)
(* the fragments yielded so far.                                           *)
(*                                                                         *)
(* Text is a sequence of one-character strings.  A character outside ASCII *)
(* is written by its code point name ("U2502", "Ue9").  A cell whose name  *)
(* starts a colour escape (EscOpen / EscClose) has no width on screen.     *)
(***************************************************************************)
EXTENDS Integers, Sequences, FiniteSets, TLC

VARIABLES
    self,      \* the formatter: [colored, encoding, max_length]
    exc,       \* failure objects 1..n: cause, context, suppress_context, cls, etype, msg
    tbs,       \* the traceback of each failure object: a sequence of frames, <<>> for None
    env,       \* the process: platform, the ps command, sys.argv
    seen,      \* _seen, shared by every recursive call of one render
    stack,     \* the suspended format_exception generators, innermost last
    out,       \* the fragments yielded to the consumer so far
    status     \* "running" | "done" | "error"

vars == <<self, exc, tbs, env, seen, stack, out, status>>

(***************************************************************************)
(* Bounds of the model.                                                    *)
(***************************************************************************)
MaxObjs == 3        \* failure objects in one graph
MaxLinks == 3       \* __cause__ and __context__ links set in one graph
MaxFrames == 2      \* frames in one traceback
MaxLineLen == 5     \* characters of a generated source line

(***************************************************************************)
(* Program constants.                                                      *)
(***************************************************************************)
MAX_LENGTH == 128

None == 0           \* Python's None among the failure objects 1..n

(***************************************************************************)
(* Generic helpers on sequences.                                           *)
(***************************************************************************)
RECURSIVE Spaces(_)
Spaces(k) == IF k <= 0 THEN <<>> ELSE <<" ">> \o Spaces(k - 1)

Repeat(ch, k) == [i \in 1..k |-> ch]

Last(s) == s[Len(s)]

(***************************************************************************)
(* Characters and encodings.                                               *)
(***************************************************************************)
Letters == {"a", "b", "c", "f", "o", "r", "z", "x", "e"}
Digits == {"7", "9"}
NonAscii == {"U2502", "U2514", "Ue9"}

\* str.encode(encoding) succeeds on a character
Encodable(ch, encoding) == encoding = "utf-8" \/ ch \notin NonAscii

\* the escape 'backslashreplace' writes for a character that cannot be encoded
BackslashEscape(ch) ==
    CASE ch = "Ue9" -> <<"\\", "x", "e", "9">>
      [] ch = "U2502" -> <<"\\", "u", "2", "5", "0", "2">>
      [] ch = "U2514" -> <<"\\", "u", "2", "5", "1", "4">>
      [] OTHER -> <<ch>>

\* character by character; the text is split in halves to keep the recursion shallow
RECURSIVE EncodeReplace(_, _)
EncodeReplace(text, encoding) ==
    IF Len(text) = 0 THEN <<>>
    ELSE IF Len(text) = 1
    THEN (IF Encodable(text[1], encoding) THEN text ELSE BackslashEscape(text[1]))
    ELSE EncodeReplace(SubSeq(text, 1, Len(text) \div 2), encoding)
         \o EncodeReplace(SubSeq(text, Len(text) \div 2 + 1, Len(text)), encoding)

\* sanitize: string.encode(encoding, errors='backslashreplace').decode(encoding)
sanitize(string) == EncodeReplace(string, self.encoding)

\* _get_char: value if it can be encoded, default otherwise
get_char(value, default) ==
    IF \A i \in 1..Len(value) : Encodable(value[i], self.encoding)
    THEN value ELSE default

get_pipe_char == get_char(<<"U2502">>, <<"|">>)

get_cap_char == get_char(<<"U2514">>, <<"-", ">">>)

(***************************************************************************)
(* colorize: the theme's template with its markup stripped (not colored)   *)
(* or turned into escape sequences (colored) around the text.              *)
(***************************************************************************)
EscOpen(tag) == "ESC<" \o tag \o ">"
EscClose(tag) == "ESC</" \o tag \o ">"
IsEsc(cell) == cell \in {EscOpen(t) : t \in {"c", "b", "r"}} \cup {EscClose(t) : t \in {"c", "b", "r"}}

THEME(theme) ==
    CASE theme = "pipe" -> <<"c">>
      [] theme = "cap" -> <<"c">>
      [] theme = "value" -> <<"c", "b">>
      [] theme = "introduction" -> <<"r">>
      [] theme = "cause" -> <<"b">>
      [] theme = "context" -> <<"b">>
      [] OTHER -> <<>>

RECURSIVE Wrap(_, _)
Wrap(tags, text) ==
    IF tags = <<>> THEN text
    ELSE <<EscOpen(Head(tags))>> \o Wrap(Tail(tags), text) \o <<EscClose(Head(tags))>>

colorize(theme, text) == IF ~self.colored THEN text ELSE Wrap(THEME(theme), text)

\* colorize_source: the raw source, or its highlighted form
colorize_source(source) == [text |-> source, highlighted |-> self.colored]

\* what a line of cells shows on screen: the cells that have a width
Visible(line) == SelectSeq(line, LAMBDA cell : ~IsEsc(cell))

(***************************************************************************)
(* Highlighter.get_tokens: the lexer of one source line.  It yields        *)
(* (index, tokentype, value) with index the offset of the token in the     *)
(* line; reserved words are Keyword, not Name; a comment runs to the end   *)
(* of the line; a line that does not lex yields no tokens.                 *)
(***************************************************************************)
Keywords == {"or", "for"}

IsIdentStart(ch) == ch \in Letters \cup {"_"}
IsIdentChar(ch) == ch \in Letters \cup Digits \cup {"_"}

RECURSIVE IdentEnd(_, _)
IdentEnd(src, i) ==
    IF i < Len(src) /\ IsIdentChar(src[i + 1]) THEN IdentEnd(src, i + 1) ELSE i

RECURSIVE DigitEnd(_, _)
DigitEnd(src, i) ==
    IF i < Len(src) /\ src[i + 1] \in Digits THEN DigitEnd(src, i + 1) ELSE i

\* the index of the quote that closes the string opened at i, 0 when none does
RECURSIVE QuoteEnd(_, _)
QuoteEnd(src, i) ==
    IF i >= Len(src) THEN 0
    ELSE IF src[i + 1] = "'" THEN i + 1 ELSE QuoteEnd(src, i + 1)

RECURSIVE JoinChars(_, _, _)
JoinChars(src, i, j) == IF i > j THEN "" ELSE src[i] \o JoinChars(src, i + 1, j)

Tok(src, i, j, type) == [index |-> i - 1, type |-> type, value |-> JoinChars(src, i, j)]

RECURSIVE LexFrom(_, _)
LexFrom(src, i) ==
    IF i > Len(src) THEN <<>>
    ELSE LET ch == src[i] IN
         IF IsIdentStart(ch) THEN
             LET j == IdentEnd(src, i)
                 word == JoinChars(src, i, j)
             IN <<Tok(src, i, j, IF word \in Keywords THEN "Keyword" ELSE "Name")>>
                \o LexFrom(src, j + 1)
         ELSE IF ch \in Digits THEN
             LET j == DigitEnd(src, i) IN <<Tok(src, i, j, "Number")>> \o LexFrom(src, j + 1)
         ELSE IF ch = "#" THEN <<Tok(src, i, Len(src), "Comment")>>
         ELSE IF ch = "'" THEN
             LET j == QuoteEnd(src, i) IN
             IF j = 0 THEN <<Tok(src, i, Len(src), "Error")>>
             ELSE <<Tok(src, i, j, "String")>> \o LexFrom(src, j + 1)
         ELSE IF ch = " " THEN <<Tok(src, i, i, "Text")>> \o LexFrom(src, i + 1)
         ELSE <<Tok(src, i, i, "Operator")>> \o LexFrom(src, i + 1)

get_tokens(source) ==
    LET toks == LexFrom(source, 1) IN
    IF \E k \in 1..Len(toks) : toks[k].type = "Error" THEN <<>> ELSE toks

\* get_relevant_names: the Name tokens of the source as it encodes
get_relevant_names(source) ==
    SelectSeq(get_tokens(EncodeReplace(source, self.encoding)),
              LAMBDA token : token.type = "Name")

NoBindings == [name \in {} |-> "int7"]

(***************************************************************************)
(* The values a frame's bindings hold, with what repr() gives for each.    *)
(***************************************************************************)
ReprRaises(v) == v = "badrepr"

Repr(v) ==
    CASE v = "int7" -> <<"7">>
      [] v = "objfoo" -> <<"F", "o", "o", "(", ")">>
      [] v = "objbar" -> <<"B", "a", "r", "(", ")">>
      [] v = "longstr" -> <<"'">> \o Repeat("x", MAX_LENGTH) \o <<"'">>
      [] OTHER -> <<>>

TypeName(v) == IF v = "badrepr" THEN <<"B", "a", "d">> ELSE <<"T">>

\* getattr on a value: objfoo.bar is objbar, nothing else has an attribute
HasAttr(v, name) == v = "objfoo" /\ name = "bar"
GetAttr(v, name) == "objbar"

Unprintable(type) ==
    <<"<", "u", "n", "p", "r", "i", "n", "t", "a", "b", "l", "e", " ">> \o type
    \o <<" ", "o", "b", "j", "e", "c", "t", ">">>

format_value(v) ==
    LET text == IF ReprRaises(v) THEN Unprintable(TypeName(v)) ELSE Repr(v) IN
    IF self.max_length # None /\ Len(text) > self.max_length
    THEN SubSeq(text, 1, self.max_length) \o <<".", ".", ".">>
    ELSE text

\* list.sort(key=index): stable insertion sort on the token offset
RECURSIVE InsertByIndex(_, _)
InsertByIndex(sorted, e) ==
    IF sorted = <<>> THEN <<e>>
    ELSE IF Last(sorted).col <= e.col THEN Append(sorted, e)
    ELSE Append(InsertByIndex(SubSeq(sorted, 1, Len(sorted) - 1), e), Last(sorted))

RECURSIVE SortByIndex(_)
SortByIndex(values) ==
    IF values = <<>> THEN <<>>
    ELSE InsertByIndex(SortByIndex(SubSeq(values, 1, Len(values) - 1)), Last(values))

RECURSIVE LookupNames(_, _)
LookupNames(names, frame) ==
    IF names = <<>> THEN <<>>
    ELSE LET name == Head(names)
             rest == LookupNames(Tail(names), frame)
         IN IF name.value \in DOMAIN frame.f_locals
            THEN <<[name |-> name.value, col |-> name.index,
                    val |-> format_value(frame.f_locals[name.value])]>> \o rest
            ELSE IF name.value \in DOMAIN frame.f_globals
            THEN <<[name |-> name.value, col |-> name.index,
                    val |-> format_value(frame.f_globals[name.value])]>> \o rest
            ELSE rest

get_relevant_values(source, frame) ==
    SortByIndex(LookupNames(get_relevant_names(source), frame))

(***************************************************************************)
(* format_traceback_frame: the source line, then one annotation line per   *)
(* relevant value, from the last value to the first.                       *)
(***************************************************************************)
\* the loop over pipe_cols: spaces up to each column, the pipe, index past it
RECURSIVE PipePrefix(_, _)
PipePrefix(pipe_cols, index) ==
    IF pipe_cols = <<>> THEN [line |-> <<>>, index |-> index]
    ELSE LET pc == Head(pipe_cols)
             rest == PipePrefix(Tail(pipe_cols), pc + 1)
         IN [line |-> Spaces(pc - index) \o colorize("pipe", get_pipe_char) \o rest.line,
             index |-> rest.index]

\* PipeCols taking the values after value i, relevant_values[i + 1:]
PipeColsAfter(relevant_values, i) ==
    [k \in 1..(Len(relevant_values) - i - 1) |-> relevant_values[i + 1 + k].col]

\* relevant_values[:i], the columns the pipes of value i stand at (i from 0)
PipeCols(relevant_values, i) == [k \in 1..i |-> relevant_values[k].col]

\* the line after its pipes: u'{}{} {}'.format(u' ' * (col - index), cap, value)
CapAndValue(pre, col, val) ==
    pre.line \o Spaces(col - pre.index) \o colorize("cap", get_cap_char)
    \o <<" ">> \o colorize("value", val)

AnnotationLine(relevant_values, i) ==
    CapAndValue(PipePrefix(PipeCols(relevant_values, i), 0),
                relevant_values[i + 1].col, relevant_values[i + 1].val)

\* AnnotationLines from the first value to the last: range() not reversed
RECURSIVE AnnotationLinesForward(_, _)
AnnotationLinesForward(relevant_values, i) ==
    IF i < 0 THEN <<>>
    ELSE AnnotationLinesForward(relevant_values, i - 1)
         \o <<[kind |-> "annotation", cells |-> AnnotationLine(relevant_values, i),
                highlighted |-> FALSE]>>

\* for i in reversed(range(len(relevant_values)))
RECURSIVE AnnotationLines(_, _)
AnnotationLines(relevant_values, i) ==
    IF i < 0 THEN <<>>
    ELSE <<[kind |-> "annotation", cells |-> AnnotationLine(relevant_values, i),
            highlighted |-> FALSE]>>
         \o AnnotationLines(relevant_values, i - 1)

FrameLines(color_source, relevant_values) ==
    <<[kind |-> "source", cells |-> color_source.text, highlighted |-> color_source.highlighted]>>
    \o AnnotationLines(relevant_values, Len(relevant_values) - 1)

(***************************************************************************)
(* get_string_source: the source of code run from a string, recovered from *)
(* the process's command line.  An argument is [dashc, text]: whether it   *)
(* starts with '-c', and its text (after the '-c' when it has one).        *)
(***************************************************************************)
RECURSIVE JoinArgs(_)
JoinArgs(args) ==
    IF args = <<>> THEN <<>>
    ELSE IF Len(args) = 1 THEN Head(args).text
    ELSE Head(args).text \o <<" ">> \o JoinArgs(Tail(args))

\* the loop that looks for '-c': [skip, cmdline]
RECURSIVE SkipToCode(_, _, _)
SkipToCode(cmdline, i, skip) ==
    IF i > Len(cmdline) THEN [skip |-> skip, cmdline |-> cmdline]
    ELSE IF ~cmdline[i].dashc THEN SkipToCode(cmdline, i + 1, skip + 1)
    ELSE IF Len(cmdline[i].text) > 0
         THEN [skip |-> skip,
               cmdline |-> [cmdline EXCEPT ![i] = [dashc |-> FALSE, text |-> cmdline[i].text]]]
         ELSE [skip |-> skip + 1, cmdline |-> cmdline]

Drop(s, k) == IF k >= Len(s) THEN <<>> ELSE SubSeq(s, k + 1, Len(s))

get_string_source ==
    IF env.platform = "Windows" THEN [err |-> FALSE, source |-> <<>>]
    ELSE IF ~env.posix THEN [err |-> FALSE, source |-> <<>>]
    ELSE IF env.ps = "CalledProcessError" THEN [err |-> FALSE, source |-> <<>>]
    ELSE IF env.ps = "OSError" THEN [err |-> TRUE, source |-> <<>>]
    ELSE LET cmdline == env.cmdline
             extra_args == Drop(env.argv, 1)
             n == Len(extra_args)
         IN IF n > 0 /\ Drop(cmdline, Len(cmdline) - n) # extra_args
            THEN [err |-> FALSE, source |-> <<>>]
            ELSE LET cut == IF n > 0
                            THEN (IF Len(cmdline) - n >= 2
                                  THEN SubSeq(cmdline, 2, Len(cmdline) - n) ELSE <<>>)
                            ELSE cmdline
                     found == SkipToCode(cut, 1, 0)
                 IN [err |-> FALSE, source |-> JoinArgs(Drop(found.cmdline, found.skip))]

(***************************************************************************)
(* get_traceback_information                                               *)
(***************************************************************************)
IsSpace(ch) == ch \in {" ", "\n"}

RECURSIVE LStrip(_)
LStrip(text) == IF text # <<>> /\ IsSpace(Head(text)) THEN LStrip(Tail(text)) ELSE text

RECURSIVE RStrip(_)
RStrip(text) ==
    IF text # <<>> /\ IsSpace(Last(text)) THEN RStrip(SubSeq(text, 1, Len(text) - 1)) ELSE text

Strip(text) == RStrip(LStrip(text))

\* list[i] in Python: i from 0, a negative i counts from the end
IndexOk(list, i) == -Len(list) <= i /\ i < Len(list)
PyIndex(list, i) == IF i >= 0 THEN list[i + 1] ELSE list[Len(list) + i + 1]

\* repl.entries: what the interactive shell recorded, by the name it gave the input
ReplEntries ==
    [f \in {<<"<console-1>">>} |->
        [filename |-> <<"<console>">>, source |-> <<<<"a", " ", "b">>>>]]

StringFilename == <<"<string>">>

\* source = repl.entries[filename][2] ... .split('\n')[lineno - 1]
ReplSource(entry, lineno) ==
    IF ~IndexOk(entry.source, lineno - 1)
    THEN [err |-> TRUE, filename |-> entry.filename, source |-> <<>>]
    ELSE [err |-> FALSE, filename |-> entry.filename,
          source |-> PyIndex(entry.source, lineno - 1)]

StringSource(filename, got) == [err |-> got.err, filename |-> filename, source |-> got.source]

\* the source text of the frame, and the file name shown for it: [err, filename, source]
FrameSource(tb) ==
    IF tb.filename \in DOMAIN ReplEntries THEN ReplSource(ReplEntries[tb.filename], tb.lineno)
    ELSE IF tb.filename = StringFilename THEN StringSource(tb.filename, get_string_source)
    ELSE [err |-> FALSE, filename |-> tb.filename, source |-> tb.line]

\* the rest of get_traceback_information once source.strip() is known
InformationOf(tb, err, filename, source) ==
    [err |-> err,
     filename |-> filename,
     lineno |-> tb.lineno,
     function |-> tb.function,
     source |-> source,
     color_source |-> colorize_source(source),
     relevant_values |-> IF err THEN <<>> ELSE get_relevant_values(source, tb)]

StrippedInformation(tb, got) == InformationOf(tb, got.err, got.filename, Strip(got.source))

get_traceback_information(tb) == StrippedInformation(tb, FrameSource(tb))

FormattedFrame(info) ==
    [err |-> info.err,
     filename |-> info.filename,
     lineno |-> info.lineno,
     function |-> info.function,
     lines |-> FrameLines(info.color_source, info.relevant_values),
     color_source |-> info.color_source]

format_traceback_frame(tb) == FormattedFrame(get_traceback_information(tb))

(***************************************************************************)
(* format_traceback                                                        *)
(***************************************************************************)
\* the traceback of the exception format_traceback raises and catches itself
SelfCaptured ==
    <<[filename |-> <<"better_exceptions", "formatter.py">>, lineno |-> 253,
       function |-> "format_traceback", line |-> <<"r">>,
       f_locals |-> NoBindings, f_globals |-> NoBindings]>>

basename(filename) == Last(filename)
dirname(filename) == SubSeq(filename, 1, Len(filename) - 1)

\* IsRuncode by the function name alone
IsRuncodeAnyFile(formatted) == formatted.function = "runcode"

IsRuncode(formatted) == basename(formatted.filename) = "code.py" /\ formatted.function = "runcode"

\* the while loop over tb: [err, frames, final_source]
RECURSIVE WalkFrames(_, _, _, _)

\* one turn of the loop, the frame formatted
WalkStep(tb, omit_last, frames, final_source, formatted) ==
    IF formatted.err THEN [err |-> TRUE, frames |-> frames, final_source |-> final_source]
    ELSE IF ~IsRuncode(formatted)
    THEN WalkFrames(Tail(tb), omit_last, Append(frames, formatted), formatted.color_source)
    ELSE WalkFrames(Tail(tb), omit_last, frames, final_source)

WalkFrames(tb, omit_last, frames, final_source) ==
    IF tb = <<>> THEN [err |-> FALSE, frames |-> frames, final_source |-> final_source]
    ELSE IF omit_last /\ Len(tb) = 1
    THEN [err |-> FALSE, frames |-> frames, final_source |-> final_source]
    ELSE WalkStep(tb, omit_last, frames, final_source, format_traceback_frame(Head(tb)))

\* traceback.format_list, then the location of each entry colorized and the text sanitized
LocationLine(formatted) ==
    [dirname |-> dirname(formatted.filename),
     basename |-> basename(formatted.filename),
     lineno |-> formatted.lineno,
     source |-> formatted.function,
     lines |-> IF Len(formatted.lines) = 1 /\ formatted.lines[1].cells = <<>>
               THEN <<>>
               ELSE [k \in 1..Len(formatted.lines) |->
                        [formatted.lines[k] EXCEPT !.cells = sanitize(@)]]]

FormatList(walked) ==
    [err |-> walked.err,
     formatted |-> [k \in 1..Len(walked.frames) |-> LocationLine(walked.frames[k])],
     final_source |-> walked.final_source]

format_traceback(tb) ==
    FormatList(WalkFrames(IF tb = <<>> THEN SelfCaptured ELSE tb, tb = <<>>,
                          <<>>, [text |-> <<>>, highlighted |-> FALSE]))

(***************************************************************************)
(* Python's view of the failure objects: truth value, hash, equality, and  *)
(* membership in a set (by hash and ==, after identity).                   *)
(*   plain      : identity hash and equality, true                         *)
(*   falsy      : the class defines __bool__ / __len__ giving False         *)
(*   unhashable : the class defines __eq__ and no __hash__                 *)
(*   valueeq    : the class defines __eq__ and __hash__ on the content,    *)
(*                and the instances of the graph carry the same content    *)
(***************************************************************************)
Classes == {"plain", "falsy", "unhashable", "valueeq"}

Truthy(value) == value # None /\ exc[value].cls # "falsy"

Hashable(value) == value = None \/ exc[value].cls # "unhashable"

PyEq(a, b) ==
    \/ a = b
    \/ a # None /\ b # None /\ exc[a].cls = "valueeq" /\ exc[b].cls = "valueeq"

SetContains(set, value) == \E e \in set : PyEq(e, value)

SetAdd(set, value) == IF SetContains(set, value) THEN set ELSE set \cup {value}

(***************************************************************************)
(* format_exception, a recursive generator.  A stack entry is one call:    *)
(* its value and where it stands.                                          *)
(*   "start"       : not yet run                                           *)
(*   "cause_sep"   : iterating the call on __cause__, the separator next   *)
(*   "context_sep" : iterating the call on __context__, the separator next *)
(*   "render"      : about to format its own traceback and yield its block *)
(***************************************************************************)
Top == stack[Len(stack)]
Pop(s) == SubSeq(s, 1, Len(s) - 1)
SetTopPc(pc) == [stack EXCEPT ![Len(stack)].pc = pc]

Fragment(kind, of, body) == [kind |-> kind, of |-> of, body |-> body]

\* Branch with the test of __suppress_context__ left out
BranchIgnoringSuppress(value, seen1) ==
    IF ~Truthy(value) THEN "none"
    ELSE IF ~Hashable(exc[value].cause) THEN "raise"
    ELSE IF ~SetContains(seen1, exc[value].cause) THEN "cause"
    ELSE IF ~Hashable(exc[value].context) THEN "raise"
    ELSE IF ~SetContains(seen1, exc[value].context) THEN "context"
    ELSE "none"

\* which chained failure the call on `value` descends into, given _seen
\* after value was added: "raise" | "cause" | "context" | "none"
Branch(value, seen1) ==
    IF ~Truthy(value) THEN "none"
    ELSE IF ~Hashable(exc[value].cause) THEN "raise"
    ELSE IF ~SetContains(seen1, exc[value].cause) THEN "cause"
    ELSE IF ~Hashable(exc[value].context) THEN "raise"
    ELSE IF ~SetContains(seen1, exc[value].context) /\ ~exc[value].suppress_context
    THEN "context"
    ELSE "none"

\* _seen as the call has it: the outermost call makes the set
OwnSeen == IF Len(stack) = 1 THEN {None} ELSE seen

\* the call goes on as its branch says
Descend(value, branch) ==
    /\ status' = IF branch = "raise" THEN "error" ELSE "running"
    /\ stack' =
         CASE branch = "raise" -> <<>>
           [] branch = "cause" ->
                Append(SetTopPc("cause_sep"), [value |-> exc[value].cause, pc |-> "start"])
           [] branch = "context" ->
                Append(SetTopPc("context_sep"), [value |-> exc[value].context, pc |-> "start"])
           [] OTHER -> SetTopPc("render")

\* the first lines of a call: _seen is made by the outermost call, value is added,
\* and the call descends into the cause, or the context, or neither
Enter ==
    /\ status = "running"
    /\ stack # <<>>
    /\ Top.pc = "start"
    /\ IF ~Hashable(Top.value)
       THEN /\ status' = "error"
            /\ stack' = <<>>
            /\ seen' = OwnSeen
       ELSE /\ seen' = SetAdd(OwnSeen, Top.value)
            /\ Descend(Top.value, Branch(Top.value, SetAdd(OwnSeen, Top.value)))
    /\ UNCHANGED <<self, exc, tbs, env, out>>

\* the chained call is exhausted: the separator is yielded
YieldSeparator ==
    /\ status = "running"
    /\ stack # <<>>
    /\ Top.pc \in {"cause_sep", "context_sep"}
    /\ out' = Append(out, Fragment(IF Top.pc = "cause_sep" THEN "cause" ELSE "context",
                                   Top.value, <<>>))
    /\ stack' = SetTopPc("render")
    /\ UNCHANGED <<self, exc, tbs, env, seen, status>>

\* traceback.format_exception_only, each line colorized by what it matches
Title(type, value) ==
    <<[type |-> type, value |-> sanitize(value), styled |-> value # <<>>]>>

\* str(value) once the empty message of an AssertionError is replaced by the source
Message(value, final_source) ==
    IF exc[value].msg = <<>> /\ exc[value].etype = "AssertionError"
    THEN final_source.text ELSE exc[value].msg

\* YieldBlock with the summary yielded before the frames
YieldBlockSummaryFirst(value, got) ==
    IF got.err
    THEN /\ status' = "error"
         /\ stack' = <<>>
         /\ UNCHANGED <<exc, out>>
    ELSE /\ exc' = [exc EXCEPT ![value].msg = Message(value, got.final_source)]
         /\ out' = out \o <<Fragment("introduction", value, <<>>),
                            Fragment("title", value,
                                     Title(exc[value].etype, Message(value, got.final_source))),
                            Fragment("traceback", value, got.formatted)>>
         /\ stack' = Pop(stack)
         /\ status' = IF Len(stack) = 1 THEN "done" ELSE "running"

\* what follows format_traceback: it raised, or the block is yielded and the call ends
YieldBlock(value, got) ==
    IF got.err
    THEN /\ status' = "error"
         /\ stack' = <<>>
         /\ UNCHANGED <<exc, out>>
    ELSE /\ exc' = [exc EXCEPT ![value].msg = Message(value, got.final_source)]
         /\ out' = out \o <<Fragment("introduction", value, <<>>),
                            Fragment("traceback", value, got.formatted),
                            Fragment("title", value,
                                     Title(exc[value].etype, Message(value, got.final_source)))>>
         /\ stack' = Pop(stack)
         /\ status' = IF Len(stack) = 1 THEN "done" ELSE "running"

\* the call's own block: format_traceback, the AssertionError message, the three yields
RenderBlock ==
    /\ status = "running"
    /\ stack # <<>>
    /\ Top.pc = "render"
    /\ YieldBlock(Top.value, format_traceback(tbs[Top.value]))
    /\ UNCHANGED <<self, tbs, env, seen>>

Next == Enter \/ YieldSeparator \/ RenderBlock

(***************************************************************************)
(* Initial states: the generator object of the outermost call exists and   *)
(* has not run; failure object 1 is the value it was given.                *)
(***************************************************************************)
DefaultSelf == [colored |-> FALSE, encoding |-> "ascii", max_length |-> MAX_LENGTH]

DefaultEnv ==
    [platform |-> "Linux", posix |-> TRUE, ps |-> "ok",
     cmdline |-> <<[dashc |-> FALSE, text |-> <<"p">>], [dashc |-> TRUE, text |-> <<"a">>]>>,
     argv |-> <<[dashc |-> TRUE, text |-> <<>>]>>]

\* a frame of a file on disk, with the line linecache has for it
PlainFrame(lineno) ==
    [filename |-> <<"app.py">>, lineno |-> lineno, function |-> "f",
     line |-> <<"a">>, f_locals |-> [name \in {"a"} |-> "int7"], f_globals |-> NoBindings]

Started ==
    /\ seen = {}
    /\ stack = <<[value |-> 1, pc |-> "start"]>>
    /\ out = <<>>
    /\ status = "running"

\* the graphs of n failure objects, each reachable from object 1 and numbered
\* in the order a walk from object 1 meets them
Links(n) == [cause : 0..n, context : 0..n]

LinkCount(g) ==
    Cardinality({o \in DOMAIN g : g[o].cause # None})
    + Cardinality({o \in DOMAIN g : g[o].context # None})

LinkGraphs(n) ==
    {g \in [1..n -> Links(n)] :
        /\ \A o \in 2..n : \E p \in 1..(o - 1) : g[p].cause = o \/ g[p].context = o
        /\ LinkCount(g) <= MaxLinks}

\* __suppress_context__ is read only of a failure that has a context
SuppressFlags(g) ==
    {sup \in [DOMAIN g -> BOOLEAN] : \A o \in DOMAIN g : g[o].context = None => ~sup[o]}

\* the classes of the objects: all plain but for two of them at most
ClassChoices(n) ==
    {cls \in [1..n -> Classes] :
        \E a, b \in 1..n : \A o \in 1..n : o \notin {a, b} => cls[o] = "plain"}

InitChain ==
    /\ \E n \in 1..MaxObjs :
       \E g \in LinkGraphs(n) :
       \E sup \in SuppressFlags(g) :
       \E cls \in ClassChoices(n) :
          exc = [o \in 1..n |->
                    [cause |-> g[o].cause, context |-> g[o].context,
                     suppress_context |-> sup[o], cls |-> cls[o],
                     etype |-> "ValueError", msg |-> <<"m">>]]
    /\ tbs = [o \in DOMAIN exc |-> <<PlainFrame(o)>>]
    /\ self = DefaultSelf
    /\ env = DefaultEnv
    /\ Started

SpecChain == InitChain /\ [][Next]_vars

(***************************************************************************)
(* Initial states of SpecFrames: one failure, or two chained, with every   *)
(* traceback of up to MaxFrames frames of the pool, in every environment   *)
(* of the pool.                                                            *)
(***************************************************************************)
FrameFiles == {<<"app.py">>, <<"lib", "code.py">>, <<"<console-1>">>, StringFilename}

\* the line linecache holds: the shell's runcode is 'exec(b)', the program's line is 'a'
PoolFrame(filename, function, lineno) ==
    [filename |-> filename, lineno |-> lineno, function |-> function,
     line |-> IF Last(filename) = "code.py" /\ function = "runcode"
              THEN <<" ", " ", "b", "\n">> ELSE <<" ", "a", "\n">>,
     f_locals |-> [name \in {"a"} |-> "int7"],
     f_globals |-> [name \in {"b"} |-> "objbar"]]

FramePool ==
    {PoolFrame(filename, function, lineno) :
        filename \in FrameFiles, function \in {"f", "runcode"}, lineno \in {1, 2}}

RECURSIVE Tracebacks(_)
Tracebacks(k) ==
    IF k = 0 THEN {<<>>}
    ELSE LET shorter == Tracebacks(k - 1) IN
         shorter \cup {Append(tb, frame) : tb \in {t \in shorter : Len(t) = k - 1},
                                            frame \in FramePool}

Arg(text) == [dashc |-> FALSE, text |-> text]
DashC(text) == [dashc |-> TRUE, text |-> text]

EnvPool ==
    { DefaultEnv,
      [DefaultEnv EXCEPT !.ps = "CalledProcessError"],
      [DefaultEnv EXCEPT !.ps = "OSError"],
      [DefaultEnv EXCEPT !.platform = "Windows", !.posix = FALSE],
      [DefaultEnv EXCEPT !.platform = "Java", !.posix = FALSE],
      \* python -c 'a b' x : the code is an argument of its own
      [DefaultEnv EXCEPT !.cmdline = <<Arg(<<"p">>), DashC(<<>>), Arg(<<"a", " ", "b">>),
                                       Arg(<<"x">>)>>,
                         !.argv = <<DashC(<<>>), Arg(<<"x">>)>>],
      \* the command line ps shows does not end with sys.argv[1:]
      [DefaultEnv EXCEPT !.argv = <<DashC(<<>>), Arg(<<"x">>)>>] }

Failure(cause, context, suppress_context, etype, msg) ==
    [cause |-> cause, context |-> context, suppress_context |-> suppress_context,
     cls |-> "plain", etype |-> etype, msg |-> msg]

\* one failure; one raised from another; one raised while another was handled
SmallGraphs(etype, msg) ==
    { <<Failure(None, None, FALSE, etype, msg)>>,
      <<Failure(2, None, TRUE, etype, msg), Failure(None, None, FALSE, "ValueError", <<"m">>)>>,
      <<Failure(None, 2, FALSE, etype, msg), Failure(None, None, FALSE, "ValueError", <<"m">>)>> }

InitFrames ==
    /\ \E root \in {[etype |-> "ValueError", msg |-> <<"m">>],
                    [etype |-> "AssertionError", msg |-> <<>>]} :
          exc \in SmallGraphs(root.etype, root.msg)
    /\ \E tb \in Tracebacks(MaxFrames) :
       \E chained \in {<<PlainFrame(2)>>, <<PoolFrame(<<"<console-1>">>, "f", 2)>>} :
          tbs = [o \in DOMAIN exc |-> IF o = 1 THEN tb ELSE chained]
    /\ self = DefaultSelf
    /\ env \in EnvPool
    /\ Started

SpecFrames == InitFrames /\ [][Next]_vars

(***************************************************************************)
(* Initial states of SpecLayout: one failure with a traceback of one frame *)
(* of a file, the line every text of up to MaxLineLen characters of the    *)
(* alphabet, or one of the lines below, under every configuration.         *)
(***************************************************************************)
LineAlphabet == {"a", "b", ".", " "}

RECURSIVE Texts(_)
Texts(k) ==
    IF k = 0 THEN {<<>>}
    ELSE LET shorter == Texts(k - 1) IN
         shorter \cup {Append(t, ch) : t \in {u \in shorter : Len(u) = k - 1},
                                       ch \in LineAlphabet}

Bind(names, value) == [name \in names |-> value]

ScopePool ==
    { [l |-> NoBindings, g |-> NoBindings],
      [l |-> Bind({"a"}, "int7"), g |-> NoBindings],
      [l |-> [name \in {"a", "b"} |-> IF name = "a" THEN "int7" ELSE "longstr"], g |-> NoBindings],
      [l |-> Bind({"b"}, "badrepr"), g |-> [name \in {"a", "b"} |-> IF name = "a" THEN "objfoo" ELSE "int7"]],
      [l |-> NoBindings, g |-> [name \in {"a", "b"} |-> IF name = "a" THEN "int7" ELSE "objbar"]] }

\* x(a, b + c)
LineCall == <<"x", "(", "a", ",", " ", "b", " ", "+", " ", "c", ")">>
\* foo.bar.baz
LineAttr == <<"f", "o", "o", ".", "b", "a", "r", ".", "b", "a", "z">>

FixedCases ==
    { [line |-> LineCall, l |-> Bind({"a", "b", "c"}, "int7"), g |-> NoBindings],
      [line |-> LineCall, l |-> Bind({"a", "c"}, "objbar"), g |-> Bind({"b", "x"}, "longstr")],
      [line |-> LineAttr, l |-> Bind({"foo"}, "objfoo"), g |-> NoBindings],
      [line |-> LineAttr, l |-> Bind({"foo"}, "objfoo"), g |-> Bind({"bar"}, "int7")],
      [line |-> LineAttr, l |-> [name \in {"foo", "bar", "baz"} |->
                                    IF name = "foo" THEN "objfoo" ELSE "int7"], g |-> NoBindings],
      \* a or 'b : a string that is not closed
      [line |-> <<"a", " ", "o", "r", " ", "'", "b">>, l |-> Bind({"a", "b"}, "int7"), g |-> NoBindings],
      \* a or b  # c
      [line |-> <<" ", "a", " ", "o", "r", " ", "b", " ", " ", "#", " ", "c", "\n">>,
       l |-> Bind({"a", "b", "c"}, "int7"), g |-> NoBindings],
      \* e-acute + a
      [line |-> <<"Ue9", " ", "+", " ", "a">>, l |-> Bind({"a", "xe9"}, "int7"), g |-> NoBindings] }

GeneratedCases == {[line |-> t, l |-> sc.l, g |-> sc.g] : t \in Texts(MaxLineLen), sc \in ScopePool}

Selves == [colored : BOOLEAN, encoding : {"ascii", "utf-8"}, max_length : {MAX_LENGTH, None}]

LayoutFrame(case) ==
    [filename |-> <<"src", "app.py">>, lineno |-> 1, function |-> "f",
     line |-> case.line, f_locals |-> case.l, f_globals |-> case.g]

InitLayout ==
    /\ \/ /\ exc = <<Failure(None, None, FALSE, "ValueError", <<"m">>)>>
          /\ \E case \in GeneratedCases \cup FixedCases : tbs = <<<<LayoutFrame(case)>>>>
       \/ /\ exc \in SmallGraphs("ValueError", <<"m">>)
          /\ Len(exc) = 2
          /\ \E case \in FixedCases : tbs = <<<<LayoutFrame(case)>>, <<PlainFrame(2)>>>>
    /\ self \in Selves
    /\ env = DefaultEnv
    /\ Started

SpecLayout == InitLayout /\ [][Next]_vars

(***************************************************************************)
(* What the report shows, read off the fragments.                          *)
(***************************************************************************)
Objs == DOMAIN exc

Positions(kind, o) == {k \in 1..Len(out) : out[k].kind = kind /\ out[k].of = o}

Count(kind, o) == Cardinality(Positions(kind, o))

Rendered(o) == Positions("title", o) # {}

Separators == {k \in 1..Len(out) : out[k].kind \in {"cause", "context"}}

Blocks == {k \in 1..Len(out) : out[k].kind = "introduction"}

\* the call on o stands in, or has gone through, its context branch
TookContext(o) ==
    \/ Positions("context", o) # {}
    \/ \E k \in 1..Len(stack) : stack[k].value = o /\ stack[k].pc = "context_sep"

TookCause(o) ==
    \/ Positions("cause", o) # {}
    \/ \E k \in 1..Len(stack) : stack[k].value = o /\ stack[k].pc = "cause_sep"

(***************************************************************************)
(* Properties of the traversal of the failure graph (SpecChain).           *)
(***************************************************************************)

\* C1: every failure object is rendered at most once (one introduction, one
\* summary), the recursion never holds more calls than there are objects, and
\* for two failures A and B with no cause, suppress_context false, A.context = B
\* and B.context = A, the render of A ends normally with A and B rendered
\* exactly once each.
C1_CycleRenderedOnce ==
    /\ \A o \in Objs : Count("introduction", o) <= 1 /\ Count("title", o) <= 1
    /\ Len(stack) <= Cardinality(Objs)
    /\ \A b \in Objs \ {1} :
          ( /\ exc[1].cause = None /\ exc[b].cause = None
            /\ ~exc[1].suppress_context /\ ~exc[b].suppress_context
            /\ exc[1].context = b /\ exc[b].context = 1
            /\ status # "running" )
          => ( /\ status = "done"
               /\ Count("introduction", 1) = 1 /\ Count("title", 1) = 1
               /\ Count("introduction", b) = 1 /\ Count("title", b) = 1 )

\* C2: a failure that has both a cause and a context never has its context
\* branch rendered: no call on it descends into its context and no 'during
\* handling' separator is yielded for it.
C2_CauseOverContext ==
    \A o \in Objs :
        (exc[o].cause # None /\ exc[o].context # None) => ~TookContext(o)

\* C3: two distinct failure objects that compare equal are not conflated:
\* when one is the cause, or the unsuppressed context, of the other and the
\* other is rendered, both are rendered.
C3_EqualObjectsBothRendered ==
    status = "done" =>
        \A o \in Objs : \A p \in Objs \ {o} :
            ( /\ PyEq(o, p)
              /\ Rendered(o)
              /\ \/ exc[o].cause = p
                 \/ exc[o].cause = None /\ exc[o].context = p /\ ~exc[o].suppress_context )
            => Rendered(p)

\* C4: a failure with suppress_context true, no cause and a context set has no
\* chained block: no call on it descends into a chained failure, no separator
\* is yielded for it, and when it is the failure given to the outermost call
\* the whole report is its own block: introduction, frames, summary.
C4_SuppressedContext ==
    \A o \in Objs :
        (exc[o].suppress_context /\ exc[o].cause = None /\ exc[o].context # None)
        => /\ ~TookContext(o)
           /\ ~TookCause(o)
           /\ (o = 1 /\ status = "done")
              => /\ Len(out) = 3
                 /\ out[1].kind = "introduction" /\ out[1].of = 1
                 /\ out[2].kind = "traceback" /\ out[2].of = 1
                 /\ out[3].kind = "title" /\ out[3].of = 1

\* C4 witness: the render of a failure with a suppressed context, which is
\* another failure, has ended.
C4_Witness ==
    /\ status = "done"
    /\ exc[1].suppress_context /\ exc[1].cause = None
    /\ exc[1].context \notin {None, 1}
    /\ exc[exc[1].context].cls = "plain" /\ exc[1].cls = "plain"

\* C10: every block is introduction, frames, summary of one failure, in that
\* order; a separator comes right after the summary of the failure it chains
\* from ('direct cause' after the cause, 'during handling' after the context)
\* and right before the introduction of the failure it was yielded for; when
\* the render has ended, the last block is the one of the failure given to the
\* outermost call and there is one separator less than there are blocks.
C10_FragmentOrder ==
    /\ \A k \in Blocks :
          /\ k + 2 <= Len(out)
          /\ out[k + 1].kind = "traceback" /\ out[k + 1].of = out[k].of
          /\ out[k + 2].kind = "title" /\ out[k + 2].of = out[k].of
          /\ k > 1 => out[k - 1].kind \in {"cause", "context"} /\ out[k - 1].of = out[k].of
    /\ \A k \in 1..Len(out) :
          /\ out[k].kind = "traceback" => k > 1 /\ out[k - 1].kind = "introduction"
          /\ out[k].kind = "title" => k > 1 /\ out[k - 1].kind = "traceback"
    /\ \A k \in Separators :
          /\ k > 1
          /\ out[k - 1].kind = "title"
          /\ out[k].kind = "cause" => out[k - 1].of = exc[out[k].of].cause
          /\ out[k].kind = "context" => out[k - 1].of = exc[out[k].of].context
    /\ status = "done" =>
          /\ out[Len(out)].kind = "title" /\ out[Len(out)].of = 1
          /\ Cardinality(Separators) = Cardinality(Blocks) - 1

\* C10 witness: a report of three blocks, chained by a cause and by a context.
C10_Witness ==
    /\ status = "done"
    /\ Cardinality(Blocks) = 3
    /\ \E k \in Separators : out[k].kind = "cause"
    /\ \E k \in Separators : out[k].kind = "context"

(***************************************************************************)
(* Properties of the frames of a traceback (SpecFrames).                   *)
(***************************************************************************)
\* the frames of the traceback given for o, none when it is None
GivenFrames(o) == tbs[o]

\* the file name a frame is shown under: the shell's name for an input it recorded
ShownFilename(frame) ==
    IF frame.filename \in DOMAIN ReplEntries
    THEN ReplEntries[frame.filename].filename ELSE frame.filename

IsShim(frame) == Last(ShownFilename(frame)) = "code.py" /\ frame.function = "runcode"

KeptFrames(o) == SelectSeq(GivenFrames(o), LAMBDA frame : ~IsShim(frame))

\* the frame list rendered for o: the body of its 'traceback' fragment
RenderedFrames(o) == out[CHOOSE k \in Positions("traceback", o) : TRUE].body

Place(filename, lineno, function) ==
    [dirname |-> SubSeq(filename, 1, Len(filename) - 1), basename |-> Last(filename),
     lineno |-> lineno, source |-> function]

PlaceOfEntry(entry) ==
    [dirname |-> entry.dirname, basename |-> entry.basename,
     lineno |-> entry.lineno, source |-> entry.source]

\* the summary text rendered for o
RenderedMessage(o) == out[CHOOSE k \in Positions("title", o) : TRUE].body[1].value

\* C7: a render of a failure chain with at least one frame ends with a complete
\* report: no error leaves format_exception, and the block of every failure of
\* the chain is there with one entry per frame that is not elided.
C7_ErrorsContained ==
    (status # "running" /\ \A o \in Objs : Len(GivenFrames(o)) >= 1)
    => /\ status = "done"
       /\ Rendered(1)
       /\ Len(RenderedFrames(1)) = Len(KeptFrames(1))

\* C8: the frame list rendered for a failure is its traceback, in order, less
\* the frames of function 'runcode' in a file named 'code.py' (all of it is left
\* out when no traceback was given: the only frame is the formatter's own); the
\* source of an elided frame is never the 'last rendered source', which shows as
\* the message of an AssertionError that has none.
C8_ShimFramesElided ==
    \A o \in Objs :
        Positions("traceback", o) # {} =>
            LET kept == KeptFrames(o)
                shown == RenderedFrames(o)
            IN /\ Len(shown) = Len(kept)
               /\ \A k \in 1..Len(kept) :
                     PlaceOfEntry(shown[k])
                        = Place(ShownFilename(kept[k]), kept[k].lineno, kept[k].function)
               /\ \A k \in 1..Len(shown) :
                     ~(shown[k].basename = "code.py" /\ shown[k].source = "runcode")
               /\ (Rendered(o) /\ exc[o].etype = "AssertionError")
                  => /\ RenderedMessage(o) # <<"b">>
                     /\ kept = <<>> => RenderedMessage(o) = <<>>
                     /\ (kept # <<>> /\ Last(kept).filename = <<"app.py">>)
                        => RenderedMessage(o) = <<"a">>

\* C8 witness: a rendered traceback whose first frame is the shell's runcode and
\* whose second frame is not, and one that ends with runcode under an
\* AssertionError without message.
C8_Witness ==
    /\ status = "done"
    /\ Len(tbs[1]) = 2
    /\ IsShim(tbs[1][2]) /\ ~IsShim(tbs[1][1])
    /\ exc[1].etype = "AssertionError"
    /\ Len(RenderedFrames(1)) = 1

(***************************************************************************)
(* Properties of the annotation of one frame (SpecLayout).                 *)
(***************************************************************************)
\* the failures whose block is rendered and whose traceback is one frame
OneFrameRendered == {o \in Objs : Positions("traceback", o) # {} /\ Len(tbs[o]) = 1}

\* the resolved values of the frame of o, as (col, val), and their columns
ResolvedValues(o) == get_traceback_information(tbs[o][1]).relevant_values

Columns(values) == [k \in 1..Len(values) |-> values[k].col]

StrictlyIncreasing(cols) == \A j, k \in 1..Len(cols) : j < k => cols[j] < cols[k]

\* the lines format_traceback_frame gives for the frame of o
LayoutLines(o) == format_traceback_frame(tbs[o][1]).lines

\* the line that annotates value i (from 0) among n values: values are laid out last first
LineOfValue(o, i, n) == Visible(LayoutLines(o)[n - i + 1].cells)

PipeGlyphs == {"|", "U2502"}
CapGlyphs == {"-", "U2514"}

\* the columns (from 0) of the pipe glyphs of a line, and the column of its cap glyph
PipeColumns(line) == {k - 1 : k \in {j \in 1..Len(line) : line[j] \in PipeGlyphs}}

CapColumn(line) ==
    (CHOOSE k \in 1..Len(line) :
        line[k] \in CapGlyphs /\ \A j \in 1..(k - 1) : line[j] \notin CapGlyphs) - 1

\* pipes at the columns of the values before value i, spaces elsewhere, then the
\* cap at the column of value i, one space, the text of the value
ExpectedLine(values, i) ==
    [k \in 1..values[i + 1].col |->
        IF \E j \in 1..i : values[j].col = k - 1 THEN get_pipe_char[1] ELSE " "]
    \o get_cap_char \o <<" ">> \o values[i + 1].val

\* C5 as written: with values at columns 2, 5, 9 the line of column 9 comes first
\* with no pipe, the line of column 5 has one pipe, at column 9, and the line of
\* column 2 has two pipes, at columns 9 and 5.
C5_PipesRightOfValue ==
    \A o \in OneFrameRendered :
        Columns(ResolvedValues(o)) = <<2, 5, 9>> =>
            /\ CapColumn(LineOfValue(o, 2, 3)) = 9 /\ PipeColumns(LineOfValue(o, 2, 3)) = {}
            /\ CapColumn(LineOfValue(o, 1, 3)) = 5 /\ PipeColumns(LineOfValue(o, 1, 3)) = {9}
            /\ CapColumn(LineOfValue(o, 0, 3)) = 2 /\ PipeColumns(LineOfValue(o, 0, 3)) = {9, 5}

\* C5 amended: with values at columns 2, 5, 9 the line of column 9 comes first
\* (top) with two pipes, at columns 2 and 5; the line of column 5 comes next with
\* one pipe, at column 2; the line of column 2 comes last with no pipe.
C5_PipesLeftOfValue ==
    \A o \in OneFrameRendered :
        Columns(ResolvedValues(o)) = <<2, 5, 9>> =>
            /\ Len(LayoutLines(o)) = 4
            /\ CapColumn(LineOfValue(o, 2, 3)) = 9 /\ PipeColumns(LineOfValue(o, 2, 3)) = {2, 5}
            /\ CapColumn(LineOfValue(o, 1, 3)) = 5 /\ PipeColumns(LineOfValue(o, 1, 3)) = {2}
            /\ CapColumn(LineOfValue(o, 0, 3)) = 2 /\ PipeColumns(LineOfValue(o, 0, 3)) = {}

\* C5 witness: the frame of a line with values at columns 2, 5, 9 is rendered.
C5_Witness ==
    /\ status = "done"
    /\ 1 \in OneFrameRendered
    /\ Columns(ResolvedValues(1)) = <<2, 5, 9>>
    /\ Len(RenderedFrames(1)[1].lines) = 4

\* C6: for the line foo.bar.baz in a frame whose locals bind foo to an object
\* with an attribute bar, the value of which has no attribute baz, the resolved
\* values are foo (column 0) and foo.bar, the attribute's value, at the column
\* of bar (column 4), and nothing for baz; bar and baz are not looked up in the
\* bindings of the frame.
C6_AttributeChain ==
    \A o \in OneFrameRendered :
        ( /\ Strip(tbs[o][1].line) = LineAttr
          /\ "foo" \in DOMAIN tbs[o][1].f_locals
          /\ HasAttr(tbs[o][1].f_locals["foo"], "bar")
          /\ ~HasAttr(GetAttr(tbs[o][1].f_locals["foo"], "bar"), "baz") )
        => [k \in 1..Len(ResolvedValues(o)) |->
               [col |-> ResolvedValues(o)[k].col, val |-> ResolvedValues(o)[k].val]]
           = << [col |-> 0, val |-> format_value(tbs[o][1].f_locals["foo"])],
                [col |-> 4, val |-> format_value(GetAttr(tbs[o][1].f_locals["foo"], "bar"))] >>

\* C9: for n resolved values with strictly increasing columns the layout is the
\* source line and n annotation lines, the line of the last value first; the
\* line of value i shows a pipe at the column of every value before it and
\* nowhere else, then the cap at the column of value i, one space and the text of
\* the value.  With no value the layout is the source line alone.  The lines
\* reach the report as laid out.
C9_AnnotationLayout ==
    \A o \in OneFrameRendered :
        LET values == ResolvedValues(o)
            n == Len(values)
            lines == LayoutLines(o)
        IN StrictlyIncreasing(Columns(values)) =>
              /\ Len(lines) = n + 1
              /\ lines[1].kind = "source"
              /\ lines[1].cells = get_traceback_information(tbs[o][1]).source
              /\ \A i \in 0..(n - 1) :
                    /\ lines[n - i + 1].kind = "annotation"
                    /\ LineOfValue(o, i, n) = ExpectedLine(values, i)
                    /\ PipeColumns(SubSeq(LineOfValue(o, i, n), 1, values[i + 1].col))
                          = {values[j].col : j \in 1..i}
              /\ lines[1].cells # <<>> =>
                    /\ Len(RenderedFrames(o)) = 1
                    /\ RenderedFrames(o)[1].lines
                          = [k \in 1..Len(lines) |-> [lines[k] EXCEPT !.cells = sanitize(@)]]

\* C9 witness: a line with three values, one of them cut at the maximum length,
\* is rendered with colours.
C9_Witness ==
    /\ status = "done"
    /\ 1 \in OneFrameRendered
    /\ Len(ResolvedValues(1)) = 3
    /\ self.colored
    /\ \E k \in 1..3 : Len(ResolvedValues(1)[k].val) = MAX_LENGTH + 3

====
